---- MODULE Spec2Model ----
(***************************************************************************)
(* Model of src/app.py (taiko-web metadata server): the chart-file text    *)
(* functions (parse_osu, get_osu_key, get_tja_preview), the preview        *)
(* resolver get_preview, and the audio preview generator make_preview      *)
(* driven by concurrent HTTP requests.                                     *)
(*                                                                         *)
(* Text is modelled at character level: a Python str is a sequence of      *)
(* one-character strings ("NUL" stands for the character \x00).            *)
(***************************************************************************)
EXTENDS Integers, Sequences, FiniteSets, TLC

VARIABLES
    song_type,   \* songs.type column of the song row (song[12])
    dirExists,   \* whether public/songs/<id> exists
    charts,      \* chart files of the song directory: file name -> file text
    mainExists,  \* os.path.isfile(public/songs/<id>/main.mp3)
    prevExists,  \* os.path.isfile(public/songs/<id>/preview.mp3)
    transcodes,  \* number of times ff.run() started the transcoder
    written,     \* number of times the transcoder wrote preview.mp3
    pc,          \* per request: position in its handler
    op,          \* per request: which route it is ("songs" or "preview")
    off,         \* per request: what get_preview gave inside make_preview
    ret,         \* per request: value returned (or exception raised)
    text,        \* SpecChart: the chart file text the functions are applied to
    call,        \* SpecChart: the function applied last, with its arguments
    out          \* SpecChart: what that application returned

vars == <<song_type, dirExists, charts, mainExists, prevExists, transcodes,
          written, pc, op, off, ret, text, call, out>>

fsVars == <<song_type, dirExists, charts, mainExists, prevExists>>
reqVars == <<transcodes, written, pc, op, off, ret>>
chartVars == <<text, call, out>>

----------------------------------------------------------------------------
(* Bounds *)

MaxLines == 3
MaxChartFiles == 2
MaxRequests == 2

----------------------------------------------------------------------------
(* Python values: every value is a record of the same shape, so that any   *)
(* two of them can be compared.                                            *)

PyInt(n) == [t |-> "int", i |-> n, s |-> <<>>]
PyStr(x) == [t |-> "str", i |-> 0, s |-> x]
PyNone == [t |-> "None", i |-> 0, s |-> <<>>]
PyFalse == [t |-> "bool", i |-> 0, s |-> <<>>]
Raise(e) == [t |-> "exc", i |-> 0, s |-> <<e>>]

\* None used as a dict key: a one-element sequence no str can equal (the
\* characters of a str are one-character strings).
None == <<"None">>

----------------------------------------------------------------------------
(* str methods *)

Whitespace == {" ", "\t", "\r", "\n"}

UpperLetters == <<"A","B","C","D","E","F","G","H","I","J","K","L","M",
                  "N","O","P","Q","R","S","T","U","V","W","X","Y","Z">>
LowerLetters == <<"a","b","c","d","e","f","g","h","i","j","k","l","m",
                  "n","o","p","q","r","s","t","u","v","w","x","y","z">>
Digits == <<"0","1","2","3","4","5","6","7","8","9">>

Range(f) == {f[i] : i \in DOMAIN f}

LowerChar(c) ==
    IF c \in Range(UpperLetters)
    THEN LowerLetters[CHOOSE i \in DOMAIN UpperLetters : UpperLetters[i] = c]
    ELSE c

\* str.lower()
lower(x) == IF x = <<>> THEN <<>> ELSE [i \in 1..Len(x) |-> LowerChar(x[i])]

RECURSIVE lstrip(_)
lstrip(x) ==
    IF x = <<>> THEN <<>>
    ELSE IF Head(x) \in Whitespace THEN lstrip(Tail(x)) ELSE x

RECURSIVE rstrip(_)
rstrip(x) ==
    IF x = <<>> THEN <<>>
    ELSE IF x[Len(x)] \in Whitespace THEN rstrip(SubSeq(x, 1, Len(x) - 1)) ELSE x

\* str.strip()
strip(x) == rstrip(lstrip(x))

\* str.replace('\x00', '')
RECURSIVE replace_nul(_)
replace_nul(x) ==
    IF x = <<>> THEN <<>>
    ELSE IF Head(x) = "NUL" THEN replace_nul(Tail(x))
    ELSE <<Head(x)>> \o replace_nul(Tail(x))

\* index of the first occurrence of c in x, 0 when there is none
Find(x, c) ==
    IF \E i \in 1..Len(x) : x[i] = c
    THEN CHOOSE i \in 1..Len(x) : x[i] = c /\ \A j \in 1..(i - 1) : x[j] # c
    ELSE 0

\* str.split('\n'): always at least one piece
RECURSIVE split_lines(_)
split_lines(x) ==
    LET k == Find(x, "\n")
    IN  IF k = 0 THEN <<x>>
        ELSE <<SubSeq(x, 1, k - 1)>> \o split_lines(SubSeq(x, k + 1, Len(x)))

\* str.split(':', 1): one piece without a colon, else two
split_colon(x) ==
    LET k == Find(x, ":")
    IN  IF k = 0 THEN <<x>>
        ELSE <<SubSeq(x, 1, k - 1), SubSeq(x, k + 1, Len(x))>>

\* f.read().decode('shift-jis','ignore').replace('\x00', '').split('\n')
\* (the text is ASCII, which the decoder leaves as it is)
read_lines(x) == split_lines(replace_nul(x))

----------------------------------------------------------------------------
(* int() and float() *)

IsDigit(c) == c \in Range(Digits)
DigitValue(c) == (CHOOSE i \in DOMAIN Digits : Digits[i] = c) - 1
AllDigits(x) == \A i \in 1..Len(x) : IsDigit(x[i])

RECURSIVE DigitsValue(_)
DigitsValue(x) ==
    IF x = <<>> THEN 0
    ELSE 10 * DigitsValue(SubSeq(x, 1, Len(x) - 1)) + DigitValue(x[Len(x)])

RECURSIVE Pow10(_)
Pow10(n) == IF n = 0 THEN 1 ELSE 10 * Pow10(n - 1)

HasSign(x) == x # <<>> /\ Head(x) \in {"+", "-"}
Unsigned(x) == IF HasSign(x) THEN Tail(x) ELSE x
IsNegative(x) == x # <<>> /\ Head(x) = "-"

\* int(v): an int is returned as it is; a str must be an optionally signed
\* run of digits (surrounding whitespace allowed), else ValueError.  An
\* exception raised while computing the argument propagates.
py_int(v) ==
    IF v.t = "exc" THEN v
    ELSE IF v.t = "int" THEN v
    ELSE IF v.t # "str" THEN Raise("TypeError")
    ELSE LET x == strip(v.s)
             d == Unsigned(x)
         IN  IF d # <<>> /\ AllDigits(d)
             THEN PyInt(IF IsNegative(x) THEN 0 - DigitsValue(d) ELSE DigitsValue(d))
             ELSE Raise("ValueError")

\* float(x) for the decimal forms [sign] digits [. digits] and [sign] . digits
\* and for nan; anything else is a ValueError (ok = FALSE).  The value is
\* kept exactly: (-1)^neg * mant / 10^scale.
py_float(x) ==
    LET d == Unsigned(x)
        k == Find(d, ".")
        ip == IF k = 0 THEN d ELSE SubSeq(d, 1, k - 1)
        fp == IF k = 0 THEN <<>> ELSE SubSeq(d, k + 1, Len(d))
    IN  IF lower(d) = <<"n", "a", "n">>
        THEN [ok |-> TRUE, nan |-> TRUE, neg |-> FALSE, mant |-> 0, scale |-> 0]
        ELSE IF AllDigits(ip) /\ AllDigits(fp) /\ Len(ip) + Len(fp) > 0
        THEN [ok |-> TRUE, nan |-> FALSE, neg |-> IsNegative(x),
              mant |-> DigitsValue(ip \o fp), scale |-> Len(fp)]
        ELSE [ok |-> FALSE, nan |-> FALSE, neg |-> FALSE, mant |-> 0, scale |-> 0]

\* int(value * 1000): truncation toward zero; int(nan) raises ValueError
int_times_1000(f) ==
    IF f.nan THEN Raise("ValueError")
    ELSE LET q == (f.mant * 1000) \div Pow10(f.scale)
         IN  PyInt(IF f.neg THEN 0 - q ELSE q)

----------------------------------------------------------------------------
(* parse_osu *)

IsWordChar(c) ==
    c \in Range(UpperLetters) \cup Range(LowerLetters) \cup Range(Digits) \cup {"_"}

\* re.match('^\[(\w+)\]$', line) succeeds
re_match_section(line) ==
    /\ Len(line) >= 3
    /\ line[1] = "[" /\ line[Len(line)] = "]"
    /\ \A i \in 2..(Len(line) - 1) : IsWordChar(line[i])

\* secm.group(1)
secm_group1(line) == SubSeq(line, 2, Len(line) - 1)

\* truth value of a tuple: false only when it is empty
Truthy(tuple) == Len(tuple) > 0

EmptyDict == [k \in {} |-> <<>>]
DictSet(d, k, v) == [x \in DOMAIN d \cup {k} |-> IF x = k THEN v ELSE d[x]]

s_Default == <<"D","e","f","a","u","l","t">>

\* current_section = (None, [])
InitialSection == <<None, <<>>>>

\* the body of "for line in osu_lines", then lines 77-80
RECURSIVE parse_osu_loop(_, _, _)
parse_osu_loop(osu_lines, sections, current_section) ==
    IF osu_lines = <<>>
    THEN IF Truthy(current_section)
         THEN DictSet(sections, current_section[1], current_section[2])
         ELSE sections
    ELSE LET line == strip(Head(osu_lines))
             rest == Tail(osu_lines)
         IN  IF re_match_section(line)
             THEN parse_osu_loop(rest,
                    IF Truthy(current_section)
                    THEN DictSet(sections, current_section[1], current_section[2])
                    ELSE sections,
                    <<secm_group1(line), <<>>>>)
             ELSE IF Truthy(current_section)
             THEN parse_osu_loop(rest, sections,
                    <<current_section[1], Append(current_section[2], line)>>)
             ELSE parse_osu_loop(rest, sections, <<s_Default, <<line>>>>)

parse_osu(osu) == parse_osu_loop(read_lines(osu), EmptyDict, InitialSection)

----------------------------------------------------------------------------
(* get_osu_key *)

RECURSIVE get_osu_key_loop(_, _, _)
get_osu_key_loop(sec, key, default) ==
    IF sec = <<>> THEN default
    ELSE LET parts == split_colon(Head(sec))
         IN  IF Len(parts) < 2 THEN Raise("IndexError")
             ELSE IF lower(strip(parts[1])) = lower(key) THEN PyStr(strip(parts[2]))
             ELSE get_osu_key_loop(Tail(sec), key, default)

get_osu_key(osu, section, key, default) ==
    IF section \notin DOMAIN osu THEN Raise("KeyError")
    ELSE get_osu_key_loop(osu[section], key, default)

----------------------------------------------------------------------------
(* get_tja_preview *)

s_demostart == <<"d","e","m","o","s","t","a","r","t">>
s_hash_start == <<"#","s","t","a","r","t">>

\* Mutant: the scan does not stop at #start.
RECURSIVE get_tja_preview_loop_nobreak(_)
get_tja_preview_loop_nobreak(tja_lines) ==
    IF tja_lines = <<>> THEN PyInt(0)
    ELSE LET line == strip(Head(tja_lines))
             parts == split_colon(line)
         IN  IF Len(parts) = 2
                /\ lower(parts[1]) = s_demostart /\ py_float(strip(parts[2])).ok
             THEN int_times_1000(py_float(strip(parts[2])))
             ELSE get_tja_preview_loop_nobreak(Tail(tja_lines))

\* Mutant: -1 instead of 0 stands for "no preview point declared".
RECURSIVE get_tja_preview_loop_minus1(_)
get_tja_preview_loop_minus1(tja_lines) ==
    IF tja_lines = <<>> THEN PyInt(0 - 1)
    ELSE LET line == strip(Head(tja_lines))
             parts == split_colon(line)
         IN  IF Len(parts) = 2
             THEN IF lower(parts[1]) = s_demostart /\ py_float(strip(parts[2])).ok
                  THEN int_times_1000(py_float(strip(parts[2])))
                  ELSE get_tja_preview_loop_minus1(Tail(tja_lines))
             ELSE IF lower(line) = s_hash_start THEN PyInt(0 - 1)
             ELSE get_tja_preview_loop_minus1(Tail(tja_lines))

RECURSIVE get_tja_preview_loop(_)
get_tja_preview_loop(tja_lines) ==
    IF tja_lines = <<>> THEN PyInt(0)
    ELSE LET line == strip(Head(tja_lines))
             parts == split_colon(line)
         IN  IF Len(parts) = 2
             THEN IF lower(parts[1]) = s_demostart /\ py_float(strip(parts[2])).ok
                  THEN int_times_1000(py_float(strip(parts[2])))
                  ELSE get_tja_preview_loop(Tail(tja_lines))
             ELSE IF lower(line) = s_hash_start THEN PyInt(0)
             ELSE get_tja_preview_loop(Tail(tja_lines))

get_tja_preview(tja) == get_tja_preview_loop(read_lines(tja))

----------------------------------------------------------------------------
(* get_preview *)

s_General == <<"G","e","n","e","r","a","l">>
s_PreviewTime == <<"P","r","e","v","i","e","w","T","i","m","e">>

\* ['easy.osu', 'normal.osu', 'hard.osu', 'oni.osu']
OsuCandidates == <<"easy.osu", "normal.osu", "hard.osu", "oni.osu">>
MainTja == "main.tja"

RECURSIVE SelectSeq2(_, _)
SelectSeq2(q, S) ==
    IF q = <<>> THEN <<>>
    ELSE IF Head(q) \in S THEN <<Head(q)>> \o SelectSeq2(Tail(q), S)
    ELSE SelectSeq2(Tail(q), S)

\* [osu for osu in os.listdir(...) if osu in [...]]
filter_osus(listdir) == SelectSeq2(listdir, Range(OsuCandidates))

\* the orders in which os.listdir may return the entries of the directory
Listings(files) ==
    {q \in [1..Cardinality(DOMAIN files) -> DOMAIN files] :
        \A i, j \in DOMAIN q : i # j => q[i] # q[j]}

\* dir: the song directory exists; files: its chart files (name -> text);
\* listdir: what os.listdir returns for it.
get_preview(dir, files, listdir, type) ==
    IF type = "tja"
    THEN IF dir /\ MainTja \in DOMAIN files
         THEN get_tja_preview(files[MainTja])
         ELSE PyInt(0)
    ELSE IF ~dir THEN Raise("FileNotFoundError")
    ELSE LET osus == filter_osus(listdir)
         IN  IF osus # <<>>
             THEN py_int(get_osu_key(parse_osu(files[osus[1]]),
                                     s_General, s_PreviewTime, PyInt(0)))
             ELSE PyInt(0)

----------------------------------------------------------------------------
(* Chart texts *)

RECURSIVE Join(_)
Join(ls) ==
    IF Len(ls) = 1 THEN ls[1] ELSE ls[1] \o <<"\n">> \o Join(Tail(ls))

L_blank == <<>>
L_General == <<"[","G","e","n","NUL","e","r","a","l","]","\r">>
L_Events == <<"[","E","v","e","n","t","s","]">>
L_Bracket == <<"[","G","e","n">>
L_PreviewPos == s_PreviewTime \o <<":"," ","5">>
L_PreviewNeg == <<"p","r","e","v","i","e","w","t","i","m","e",":","-","1">>
L_PreviewBad == s_PreviewTime \o <<":","1",":","5">>
L_Demo == s_demostart \o <<":","1",".","5">>
L_DemoNeg == <<" ","D","E","M","O","S","T","A","R","T",":"," ","-","1",".","5">>
L_DemoBad == s_demostart \o <<":","x">>
L_DemoNan == s_demostart \o <<":","n","a","n">>
L_Start == <<"#","S","T","A","R","T","\r">>

LinePool == {L_blank, L_General, L_Events, L_Bracket, L_PreviewPos, L_PreviewNeg,
             L_PreviewBad, L_Demo, L_DemoNeg, L_DemoBad, L_DemoNan, L_Start}

\* every file of 1..MaxLines lines of the pool
ChartTexts == {Join(ls) : ls \in UNION {[1..n -> LinePool] : n \in 1..MaxLines}}

\* the chart files found in song directories of the request model
SampleCharts == {Join(<<L_General, L_PreviewPos>>),
                 Join(<<L_General, L_PreviewNeg>>),
                 Join(<<L_Demo, L_Start>>)}

ChartNames == {MainTja} \cup Range(OsuCandidates)

ChartDirs ==
    UNION {[S -> SampleCharts] :
             S \in {T \in SUBSET ChartNames : Cardinality(T) <= MaxChartFiles}}

SongTypes == {"tja", "osu"}

----------------------------------------------------------------------------
(* Requests: route_api_songs and route_api_preview / make_preview *)

Requests == 1..MaxRequests

\* prev_path = 'public/songs/%s/preview.mp3' % song_id
prev_path == PyStr(<<"public/songs/%s/preview.mp3">>)

InitRequests ==
    /\ transcodes = 0
    /\ written = 0
    /\ pc = [r \in Requests |-> "new"]
    /\ op = [r \in Requests |-> "none"]
    /\ off = [r \in Requests |-> PyNone]
    /\ ret = [r \in Requests |-> PyNone]

NoCall == [fn |-> "none", section |-> <<>>, key |-> <<>>, default |-> PyNone,
           song_type |-> "none"]

Init ==
    /\ song_type \in SongTypes
    /\ dirExists \in BOOLEAN
    /\ charts \in (IF dirExists THEN ChartDirs ELSE {EmptyDict})
    /\ mainExists \in (IF dirExists THEN BOOLEAN ELSE {FALSE})
    /\ prevExists \in (IF dirExists THEN BOOLEAN ELSE {FALSE})
    /\ InitRequests
    /\ text = <<>>
    /\ call = NoCall
    /\ out = PyNone

\* requests are numbered in the order in which their handlers begin
MayBegin(r) == pc[r] = "new" /\ \A q \in Requests : q < r => pc[q] # "new"

\* route_api_songs: preview = get_preview(song_id, song_type)
RouteApiSongs(r) ==
    /\ MayBegin(r)
    /\ \E listdir \in Listings(charts) :
         ret' = [ret EXCEPT ![r] = get_preview(dirExists, charts, listdir, song_type)]
    /\ op' = [op EXCEPT ![r] = "songs"]
    /\ pc' = [pc EXCEPT ![r] = "done"]
    /\ UNCHANGED <<fsVars, transcodes, written, off, chartVars>>

\* Mutant: the artifact's existence is not looked at.
needs_preview_nocache(main, prev) == main

\* if os.path.isfile(song_path) and not os.path.isfile(prev_path)
needs_preview(main, prev) == main /\ ~prev

\* Mutant: a per-song lock makes the check wait for a generation in progress.
MakePreviewCheckLocked(r) ==
    /\ MayBegin(r)
    /\ \A q \in Requests : pc[q] \notin {"resolve", "ffmpeg"}
    /\ op' = [op EXCEPT ![r] = "preview"]
    /\ IF mainExists /\ ~prevExists
       THEN /\ pc' = [pc EXCEPT ![r] = "resolve"]
            /\ ret' = ret
       ELSE /\ pc' = [pc EXCEPT ![r] = "done"]
            /\ ret' = [ret EXCEPT ![r] = prev_path]
    /\ UNCHANGED <<fsVars, transcodes, written, off, chartVars>>

\* make_preview, line 236: the existence check; line 247 when it fails
MakePreviewCheck(r) ==
    /\ MayBegin(r)
    /\ op' = [op EXCEPT ![r] = "preview"]
    /\ IF needs_preview(mainExists, prevExists)
       THEN /\ pc' = [pc EXCEPT ![r] = "resolve"]
            /\ ret' = ret
       ELSE /\ pc' = [pc EXCEPT ![r] = "done"]
            /\ ret' = [ret EXCEPT ![r] = prev_path]
    /\ UNCHANGED <<fsVars, transcodes, written, off, chartVars>>

\* Mutant: only a zero offset is skipped.
skip_preview_zero_only(offset) == offset.i = 0

\* not preview or preview <= 0, for preview = get_preview(...) / 1000
skip_preview(offset) == offset.i = 0 \/ offset.i <= 0

\* make_preview, lines 237-245: resolve the offset, skip or start ffmpeg
MakePreviewResolve(r) ==
    /\ pc[r] = "resolve"
    /\ \E listdir \in Listings(charts) :
         \E preview \in {get_preview(dirExists, charts, listdir, song_type)} :
             /\ off' = [off EXCEPT ![r] = preview]
             /\ IF preview.t = "exc"
                THEN /\ pc' = [pc EXCEPT ![r] = "done"]
                     /\ ret' = [ret EXCEPT ![r] = preview]
                     /\ transcodes' = transcodes
                ELSE IF skip_preview(preview)
                THEN /\ pc' = [pc EXCEPT ![r] = "done"]
                     /\ ret' = [ret EXCEPT ![r] = PyFalse]
                     /\ transcodes' = transcodes
                ELSE /\ pc' = [pc EXCEPT ![r] = "ffmpeg"]
                     /\ ret' = ret
                     /\ transcodes' = transcodes + 1
    /\ UNCHANGED <<fsVars, written, op, chartVars>>

\* ff.run() returns: the transcoder wrote preview.mp3 (-y overwrites), or it
\* failed and ff.run() raises; then line 247
FFmpegFinish(r) ==
    /\ pc[r] = "ffmpeg"
    /\ pc' = [pc EXCEPT ![r] = "done"]
    /\ \/ /\ prevExists' = TRUE
          /\ written' = written + 1
          /\ ret' = [ret EXCEPT ![r] = prev_path]
       \/ /\ ret' = [ret EXCEPT ![r] = Raise("FFRuntimeError")]
          /\ UNCHANGED <<prevExists, written>>
    /\ UNCHANGED <<song_type, dirExists, charts, mainExists, transcodes, op, off,
                   chartVars>>

Next ==
    \E r \in Requests :
        \/ RouteApiSongs(r)
        \/ MakePreviewCheck(r)
        \/ MakePreviewResolve(r)
        \/ FFmpegFinish(r)

Spec == Init /\ [][Next]_vars

\* the same requests, one at a time: a request begins when none is in flight
NoneInFlight == \A q \in Requests : pc[q] \in {"new", "done"}

NextSeq ==
    \E r \in Requests :
        \/ NoneInFlight /\ RouteApiSongs(r)
        \/ NoneInFlight /\ MakePreviewCheck(r)
        \/ MakePreviewResolve(r)
        \/ FFmpegFinish(r)

SpecSeq == Init /\ [][NextSeq]_vars

----------------------------------------------------------------------------
(* The chart functions, each applied once to every chart text *)

InitChart ==
    /\ text \in ChartTexts
    /\ call = NoCall
    /\ out = PyNone
    /\ song_type = "tja"
    /\ dirExists = FALSE
    /\ charts = EmptyDict
    /\ mainExists = FALSE
    /\ prevExists = FALSE
    /\ InitRequests

SectionArgs == {s_General, s_Default}
KeyArgs == {lower(s_PreviewTime), s_demostart}
DefaultArgs == {PyInt(0), PyNone}

Called(fn, section, key, default, type) ==
    [fn |-> fn, section |-> section, key |-> key, default |-> default,
     song_type |-> type]

DoParseOsu ==
    /\ call = NoCall
    /\ call' = Called("parse_osu", <<>>, <<>>, PyNone, "none")
    /\ out' = parse_osu(text)
    /\ UNCHANGED <<fsVars, reqVars, text>>

DoGetOsuKey ==
    /\ call = NoCall
    /\ \E section \in SectionArgs, key \in KeyArgs, default \in DefaultArgs :
         /\ call' = Called("get_osu_key", section, key, default, "none")
         /\ out' = get_osu_key(parse_osu(text), section, key, default)
    /\ UNCHANGED <<fsVars, reqVars, text>>

DoGetTjaPreview ==
    /\ call = NoCall
    /\ call' = Called("get_tja_preview", <<>>, <<>>, PyNone, "none")
    /\ out' = get_tja_preview(text)
    /\ UNCHANGED <<fsVars, reqVars, text>>

\* the file name under which get_preview reads a chart of the given format
ChartFileOf(type) == IF type = "tja" THEN MainTja ELSE "oni.osu"

\* get_preview on a song directory that holds the text as its one chart file
DoGetPreview ==
    /\ call = NoCall
    /\ \E type \in SongTypes :
         /\ call' = Called("get_preview", <<>>, <<>>, PyNone, type)
         /\ out' = get_preview(TRUE, (ChartFileOf(type) :> text),
                               <<ChartFileOf(type)>>, type)
    /\ UNCHANGED <<fsVars, reqVars, text>>

NextChart == DoParseOsu \/ DoGetOsuKey \/ DoGetTjaPreview \/ DoGetPreview

SpecChart == InitChart /\ [][NextChart]_vars

----------------------------------------------------------------------------
(* Claims about the chart functions (SpecChart) *)

\* the lines of the text as both parsers see them: NULs removed, trimmed
TrimmedLines(x) ==
    LET ls == read_lines(x) IN [i \in 1..Len(ls) |-> strip(ls[i])]

NoSectionHeader(x) ==
    \A i \in 1..Len(TrimmedLines(x)) : ~re_match_section(TrimmedLines(x)[i])

\* C2: for every chart file with no section-header line, parse_osu returns a
\* document with exactly one section, named "Default", holding every trimmed
\* line of the file in original order.
C2_DefaultSection ==
    (call.fn = "parse_osu" /\ NoSectionHeader(text))
        => out = (s_Default :> TrimmedLines(text))

\* the lookup as C3 describes it: lines without a colon are skipped
RECURSIVE LookupSkipping(_, _, _)
LookupSkipping(sec, key, default) ==
    IF sec = <<>> THEN default
    ELSE LET k == Find(Head(sec), ":")
             ok == strip(SubSeq(Head(sec), 1, k - 1))
             ov == strip(SubSeq(Head(sec), k + 1, Len(Head(sec))))
         IN  IF k > 0 /\ lower(ok) = lower(key) THEN PyStr(ov)
             ELSE LookupSkipping(Tail(sec), key, default)

LookupAsClaimed(osu, section, key, default) ==
    IF section \in DOMAIN osu THEN LookupSkipping(osu[section], key, default)
    ELSE default

\* C3: get_osu_key never raises: it returns the trimmed value of the first
\* line of the named section whose key matches case-insensitively, and the
\* default when no line matches or the section does not exist; lines without
\* a colon are skipped.
C3_NeverRaises ==
    call.fn = "get_osu_key"
        => /\ out.t # "exc"
           /\ out = LookupAsClaimed(parse_osu(text), call.section, call.key,
                                    call.default)

\* index of the first line equal to #start (trimmed, any case); one past the
\* last line when there is none
Terminator(ls) ==
    IF \E i \in 1..Len(ls) : lower(ls[i]) = s_hash_start
    THEN CHOOSE i \in 1..Len(ls) :
            /\ lower(ls[i]) = s_hash_start
            /\ \A j \in 1..(i - 1) : lower(ls[j]) # s_hash_start
    ELSE Len(ls) + 1

DemostartValue(line) == strip(SubSeq(line, Find(line, ":") + 1, Len(line)))

\* a line name:value whose name is demostart (any case)
IsDemostart(line) ==
    /\ Find(line, ":") > 0
    /\ lower(SubSeq(line, 1, Find(line, ":") - 1)) = s_demostart

\* the demostart lines with a value float() accepts, before the terminator
NumericDemostarts(ls) ==
    {i \in 1..(Terminator(ls) - 1) :
        IsDemostart(ls[i]) /\ py_float(DemostartValue(ls[i])).ok}

Min(S) == CHOOSE i \in S : \A j \in S : i <= j

\* C8: in get_tja_preview the terminator takes precedence: scanning stops at
\* the first line equal to #start, so with no demostart line of numeric value
\* before it the result is 0 whatever follows; a demostart line whose value
\* is not a number is skipped and the scan goes on, so the result comes from
\* the first demostart line of numeric value before the terminator.
C8_TerminatorPrecedence ==
    call.fn = "get_tja_preview"
        => LET ls == TrimmedLines(text)
               D == NumericDemostarts(ls)
           IN  out = IF D = {} THEN PyInt(0)
                     ELSE int_times_1000(py_float(DemostartValue(ls[Min(D)])))

\* C8 witness: a non-numeric demostart line, then the terminator, then a
\* numeric demostart line: the result is 0.
C8_Witness ==
    /\ call.fn = "get_tja_preview"
    /\ LET ls == TrimmedLines(text)
       IN  /\ Len(ls) = 3
           /\ IsDemostart(ls[1]) /\ ~py_float(DemostartValue(ls[1])).ok
           /\ Terminator(ls) = 2
           /\ IsDemostart(ls[3]) /\ py_float(DemostartValue(ls[3])).ok
    /\ out = PyInt(0)

\* the chart declares a negative value: a demostart (single-pass format) or
\* PreviewTime (sectioned format) line whose value begins with a minus sign
DeclaresNegative(x, type) ==
    \E i \in 1..Len(TrimmedLines(x)) :
        LET line == TrimmedLines(x)[i]
            k == Find(line, ":")
            name == lower(strip(SubSeq(line, 1, k - 1)))
        IN  /\ k > 0
            /\ name = (IF type = "tja" THEN s_demostart ELSE lower(s_PreviewTime))
            /\ IsNegative(DemostartValue(line))

----------------------------------------------------------------------------
(* Claims about the requests (Spec, SpecSeq) *)

Done(r, route) == pc[r] = "done" /\ op[r] = route

\* C4: for every format tag, when the song's directory does not exist,
\* get_preview returns 0 instead of raising.
C4_MissingDirZero ==
    \A r \in Requests : (Done(r, "songs") /\ ~dirExists) => ret[r] = PyInt(0)

\* truth value of a returned object
Falsy(v) == v.t \in {"bool", "None"} \/ (v.t = "int" /\ v.i = 0) \/ (v.t = "str" /\ v.s = <<>>)

\* route_api_preview, lines 174-178: the file the client is redirected to
redirect(prev) == IF Falsy(prev) THEN "main.mp3" ELSE "preview.mp3"

\* C5: whenever main.mp3 is absent, make_preview reports "no artifact" (a
\* falsy result, never an artifact path), so route_api_preview never
\* redirects to a preview.mp3 that was not generated.
C5_NoSourceNoArtifact ==
    \A r \in Requests :
        (Done(r, "preview") /\ ~mainExists)
            => /\ Falsy(ret[r])
               /\ redirect(ret[r]) = "preview.mp3" => prevExists

\* the request resolved a positive offset and its transcoder run succeeded
Generated(r) ==
    /\ Done(r, "preview")
    /\ off[r].t = "int" /\ off[r].i > 0
    /\ ret[r] = prev_path

NoTranscoderFailure == \A r \in Requests : ret[r] # Raise("FFRuntimeError")

\* C6: with make_preview calls that do not overlap and a transcoder that
\* succeeds, once a call with source audio present and a resolved offset > 0
\* has generated preview.mp3, the transcoder has been invoked exactly once;
\* every later call finds the artifact by existence, resolves nothing,
\* transcodes nothing and returns the same path.
C6_Idempotent ==
    \A r \in Requests :
        (NoTranscoderFailure /\ Generated(r))
            => /\ mainExists /\ prevExists
               /\ transcodes = 1 /\ written = 1
               /\ \A q \in Requests :
                    (q > r /\ op[q] = "preview")
                        => /\ pc[q] = "done"
                           /\ off[q] = PyNone
                           /\ ret[q] = ret[r]

\* C6 witness: the first call generated the artifact and a second call has
\* returned.
C6_Witness ==
    /\ Generated(1)
    /\ Done(2, "preview")
    /\ transcodes = 1

ResolvedOffsets == {r \in Requests : off[r].t = "int"}

\* C7: when source audio exists, no artifact exists and the resolved offset
\* is 0 or negative, make_preview does not invoke the transcoder, returns
\* False and leaves the artifact absent, however many calls are made.
C7_NonPositiveSkips ==
    (\A r \in ResolvedOffsets : off[r].i <= 0)
        => /\ transcodes = 0 /\ written = 0
           /\ \A r \in ResolvedOffsets :
                /\ mainExists /\ ~prevExists
                /\ pc[r] = "done" /\ ret[r] = PyFalse

\* C7 witness: every request was a make_preview call that resolved an offset
\* <= 0, one of them a negative one.
C7_Witness ==
    /\ ResolvedOffsets = Requests
    /\ \A r \in Requests : off[r].i <= 0 /\ pc[r] = "done"
    /\ \E r \in Requests : off[r].i < 0
    /\ mainExists /\ ~prevExists

\* C9: for every format tag other than tja, get_preview reads the candidate
\* chart file that comes first in a fixed priority order, so the resolved
\* offset is the same for every order in which os.listdir may return the
\* directory's entries.
C9_ListingOrderIrrelevant ==
    \A r \in Requests :
        (Done(r, "songs") /\ song_type # "tja")
            => \A listdir \in Listings(charts) :
                 LET other == get_preview(dirExists, charts, listdir, song_type)
                 IN  (ret[r].t = "int" /\ other.t = "int") => ret[r] = other

\* the requests between the existence check and the end of the transcoder run
InGeneration == {r \in Requests : pc[r] \in {"resolve", "ffmpeg"}}

\* C10: the existence check and the generation are not atomic together: while
\* a make_preview call is between its check and the end of its transcoder
\* run (artifact still absent), another call can pass the check; every call
\* that passed it with an offset > 0 invokes the transcoder, and every such
\* call whose run succeeded wrote the artifact.
C10_CheckNotAtomic ==
    /\ \A q \in Requests :
         (InGeneration # {} /\ MayBegin(q) /\ ~prevExists)
             => ENABLED (MakePreviewCheck(q) /\ pc'[q] = "resolve")
    /\ transcodes = Cardinality({r \in ResolvedOffsets : off[r].i > 0})
    /\ written = Cardinality({r \in Requests : Generated(r)})

\* C10 witness: two calls were in the transcoder at once, the transcoder was
\* invoked twice and the artifact written twice.
C10_Witness ==
    /\ transcodes >= 2
    /\ written >= 2
    /\ \E r, q \in Requests : r # q /\ Generated(r) /\ Generated(q)

====
